---- MODULE Spec2Model ----
(***************************************************************************)
(* Model of the MIUI proxy service: the conversation store (cache table,   *)
(* write queue, eviction loop), the request path (GetConversation,         *)
(* getOrCreateUser, performChat) and the upstream stream parser             *)
(* (MiuiClient.Chat).                                                       *)
(*                                                                         *)
(* Text is a sequence of characters; a history is a sequence of messages.  *)
(***************************************************************************)
EXTENDS Integers, Sequences, FiniteSets, TLC

VARIABLES
    stream,     \* the upstream response the parser run reads
    chat,       \* the state of one MiuiClient.Chat call: pc, pos, full, chunks, err
    clock,      \* time.Now(), in seconds
    millis,     \* the millisecond stamp nowMillis() last returned
    lastTick,   \* the time of the eviction loop's last tick
    objs,       \* every Conversation object constructed so far
    convs,      \* Store.convs: key -> index into objs, 0 when absent
    users,      \* Store.users: user key -> User, NoUser when absent
    dbUsers,    \* the users table: user key -> row, NoRow when absent
    dbConvs,    \* the conversations table: key -> row, NoRow when absent
    writeCh,    \* Store.writeCh: the queued write requests
    wr,         \* Store.writeLoop: the request whose transaction is open
    done,       \* the completion channel of each handler's blocking write
    h,          \* the request handlers: position and locals
    cl,         \* Store.cleanupLoop: position and locals
    aux,        \* history variables the properties read (never read by an action's guard)
    shut,       \* Store.Close and what it stops: position, goroutines, panic
    srv,        \* one request through methodOnly and its handler: position, response
    opt,        \* one parseRequestOptions call: its inputs and its result
    res         \* resolves by arbitrary user keys and session ids: the table they fill

chatVars == <<stream, chat>>
storeVars == <<clock, millis, lastTick, objs, convs, users, dbUsers, dbConvs,
               writeCh, wr, done, h, cl, aux>>
sideVars == <<shut, srv, opt, res>>
vars == <<stream, chat, clock, millis, lastTick, objs, convs, users, dbUsers,
          dbConvs, writeCh, wr, done, h, cl, aux, shut, srv, opt, res>>

-----------------------------------------------------------------------------
(* Bounds *)

MaxLines == 3       \* records in an upstream event stream
MaxReqs == 2        \* requests that arrive in one run
MaxClock == 2       \* times the clock advances in one run (by persistAfter each)
MaxTokens == 3      \* tokens in a requested model name
MaxResolves == 3    \* resolves by arbitrary user keys and session ids in one run
MaxElapse == 1      \* times the clock jumps by evictAfter in one fair run
MaxInFlight == 1    \* requests in flight at the moment of such a jump

-----------------------------------------------------------------------------
(* Text *)

Chars == {"a", "b", " "}

EmptyText == << >>

\* strings.TrimSpace(s) != ""
NotBlank(s) == \E i \in 1..Len(s) : s[i] # " "

RECURSIVE Concat(_)
Concat(ss) == IF ss = << >> THEN << >> ELSE Head(ss) \o Concat(Tail(ss))

-----------------------------------------------------------------------------
(* The upstream event stream.                                               *)
(* A line is what strings.TrimSpace(line) leaves: it has the data: prefix   *)
(* or not, and its payload (after TrimPrefix and TrimSpace) is the literal  *)
(* [DONE], a JSON object with an answer string, or text json.Unmarshal      *)
(* rejects.                                                                 *)

Answers == {EmptyText, <<"a">>, <<"b">>, <<" ">>}

Payloads ==
    {[type |-> "done", answer |-> EmptyText], [type |-> "bad", answer |-> EmptyText]}
    \cup {[type |-> "json", answer |-> a] : a \in Answers}

Lines ==
    {[data |-> TRUE, payload |-> p] : p \in Payloads}
    \cup {[data |-> FALSE, payload |-> p] :
            p \in {[type |-> "done", answer |-> EmptyText],
                   [type |-> "json", answer |-> <<"a">>]}}

SeqsUpTo(S, n) == UNION {[1..k -> S] : k \in 0..n}

\* status: what httpClient.Do and the status check give; end: how the body
\* ends (io.EOF or another read error); terminated: whether the last line
\* ends with a newline before the body ends.
Streams ==
    {[status |-> "ok", lines |-> ls, end |-> e, terminated |-> t] :
        ls \in SeqsUpTo(Lines, MaxLines), e \in {"EOF", "error"}, t \in BOOLEAN}
    \cup {[status |-> st, lines |-> << >>, end |-> "EOF", terminated |-> TRUE] :
            st \in {"transport", "non200"}}

-----------------------------------------------------------------------------
(* MiuiClient.Chat: the call, one loop iteration per step.                  *)

\* The state of a call before httpClient.Do. hasCb: onChunk != nil.
ChatStart(hasCb) ==
    [pc |-> "do", pos |-> 0, full |-> EmptyText, chunks |-> << >>,
     err |-> FALSE, hasCb |-> hasCb]

\* reader.ReadString('\n') with pos lines consumed: the line it returns
\* (none once the body is exhausted) and its error.
ReadString(s, pos) ==
    IF pos < Len(s.lines)
    THEN [line |-> <<s.lines[pos + 1]>>,
          err |-> IF pos + 1 < Len(s.lines) \/ s.terminated THEN "nil" ELSE s.end]
    ELSE [line |-> << >>, err |-> s.end]

\* Accumulate with the fragment put before the buffer instead of after it.
AccumulatePrepend(st, answer) ==
    IF answer # EmptyText
    THEN [st EXCEPT !.full = answer \o @,
                    !.chunks = IF st.hasCb THEN Append(@, answer) ELSE @]
    ELSE st

\* full.WriteString(chunk.Answer); onChunk(chunk.Answer)
Accumulate(st, answer) ==
    IF answer # EmptyText
    THEN [st EXCEPT !.full = @ \o answer,
                    !.chunks = IF st.hasCb THEN Append(@, answer) ELSE @]
    ELSE st

\* The end of a loop iteration that reached `if errors.Is(err, io.EOF)`.
LoopEnd(st, rerr) ==
    IF rerr = "EOF" THEN [st EXCEPT !.pc = "ret"] ELSE st

\* ProcessLine with a malformed record ending the stream.
ProcessLineBadEnds(st, line, rerr) ==
    IF line.data
    THEN CASE line.payload.type \in {"done", "bad"} -> [st EXCEPT !.pc = "ret"]
           [] OTHER -> LoopEnd(Accumulate(st, line.payload.answer), rerr)
    ELSE LoopEnd(st, rerr)

\* ProcessLine with the [DONE] record skipped like a malformed one.
ProcessLineNoDone(st, line, rerr) ==
    IF line.data
    THEN CASE line.payload.type \in {"done", "bad"} -> st
           [] OTHER -> LoopEnd(Accumulate(st, line.payload.answer), rerr)
    ELSE LoopEnd(st, rerr)

\* The loop body after a successful (or EOF) read of `line`.
ProcessLine(st, line, rerr) ==
    IF line.data
    THEN CASE line.payload.type = "done" -> [st EXCEPT !.pc = "ret"]
           [] line.payload.type = "bad"  -> st
           [] OTHER -> LoopEnd(Accumulate(st, line.payload.answer), rerr)
    ELSE LoopEnd(st, rerr)

\* One step of the call.
ChatStep(st, s) ==
    CASE st.pc = "do" ->
            IF s.status = "ok" THEN [st EXCEPT !.pc = "read"]
            ELSE [st EXCEPT !.pc = "ret", !.err = TRUE]
      [] st.pc = "read" ->
            LET r == ReadString(s, st.pos)
                consumed == [st EXCEPT !.pos = IF r.line = << >> THEN @ ELSE @ + 1]
            IN  IF r.err = "error"
                THEN [st EXCEPT !.pc = "ret", !.err = TRUE]
                ELSE IF r.line = << >> THEN LoopEnd(consumed, r.err)
                     ELSE ProcessLine(consumed, r.line[1], r.err)
      [] OTHER -> st

\* The whole call: the state it returns in.
RECURSIVE RunChat(_, _)
RunChat(st, s) == IF st.pc = "ret" THEN st ELSE RunChat(ChatStep(st, s), s)

-----------------------------------------------------------------------------
(* The store: constants, keys, records.                                     *)

persistAfter == 30
evictAfter == 60
cleanupPeriod == 5
WriteChCap == 1024

Handlers == {"h1", "h2"}

UserKeys == {<<"u">>}
SessionIds == {EmptyText}
Queries == {<<"q">>}

\* GetConversation: the empty session id becomes "default", and the table
\* key is fmt.Sprintf("%s|%s", userKey, conversationID).
DefaultIfEmpty(sid) == IF sid = EmptyText THEN <<"default">> ELSE sid

ConvKey(userKey, sid) == userKey \o <<"|">> \o DefaultIfEmpty(sid)

Keys == {ConvKey(u, s) : u \in UserKeys, s \in SessionIds}

\* The primary key of the conversations table: (user_key, conversation_id).
Pairs == {<<u, DefaultIfEmpty(s)>> : u \in UserKeys, s \in SessionIds}

NoUser == [oaid |-> "none", miID |-> "none"]
NoRow == [internalID |-> "none"]
NoReq == [kind |-> "none"]

\* A slot of objs that holds no Conversation.
NoConv == [key |-> "none"]

\* No eviction of a key is waiting for the key's next resolve.
NoEvicted == [by |-> "nobody"]

\* newOAID(), newMiID(): random tokens; two calls give different values, so
\* the value a call draws is named after the handler drawing it.
newOAID(hd) == [h1 |-> "oaid-h1", h2 |-> "oaid-h2"][hd]
newMiID(hd) == [h1 |-> "miid-h1", h2 |-> "miid-h2"][hd]

\* newConversationID(oaid): oaid followed by the millisecond stamp.
newConversationID(oaid, ms) == <<oaid, ms>>

Message(source, content) == [Source |-> source, Content |-> content]

\* The responses the upstream gives in the store's runs: a complete answer,
\* a blank answer, an answer cut by a read error, and a non-200 status.
DataLine(a) == [data |-> TRUE, payload |-> [type |-> "json", answer |-> a]]
DoneLine == [data |-> TRUE, payload |-> [type |-> "done", answer |-> EmptyText]]

UpstreamStreams ==
    {[status |-> "ok", lines |-> <<DataLine(<<"a">>), DoneLine>>, end |-> "EOF", terminated |-> TRUE],
     [status |-> "ok", lines |-> <<DataLine(<<" ">>)>>, end |-> "EOF", terminated |-> TRUE],
     [status |-> "ok", lines |-> <<DataLine(<<"a">>)>>, end |-> "error", terminated |-> TRUE],
     [status |-> "non200", lines |-> << >>, end |-> "EOF", terminated |-> TRUE]}

IdleHandler ==
    [pc |-> "idle", userKey |-> EmptyText, sid |-> EmptyText, query |-> EmptyText,
     conv |-> 0, oaid |-> "none", miID |-> "none",
     full |-> EmptyText, err |-> FALSE, delivered |-> FALSE, prior |-> NoRow]

IdleCleanup ==
    [pc |-> "idle", now |-> 0, toScan |-> {}, evictKeys |-> << >>, cur |-> EmptyText,
     snap |-> NoReq, due |-> << >>, spared |-> {}]

\* Store.mu as the eviction loop holds it: RLock during the scan pass, Lock
\* during the second pass. Handlers hold it only within one step.
TableRLocked == cl.pc \in {"scan", "scanRead", "scanPersist", "scanSend"}
TableWLocked == cl.pc \in {"evict", "evictPersist", "evictSend"}

\* Store.Close has not been called: stopCh, writeCh and the database are
\* open, the worker runs and nothing has panicked.
NotClosed == [pc |-> "open", worker |-> "running", panic |-> "none"]

\* Store.Close, statement by statement: close(s.stopCh), close(s.writeCh),
\* s.db.Close().
StopClosed == shut.pc # "open"
QueueClosed == shut.pc \in {"queueClosed", "dbClosed"}
DBClosed == shut.pc = "dbClosed"

\* No request is being served.
IdleServe ==
    [pc |-> "idle", method |-> "none", route |-> "none", pre |-> "none",
     streaming |-> FALSE, status |-> 0, out |-> << >>, sentRole |-> FALSE,
     invoked |-> 0, calls |-> 0]

\* No parseRequestOptions call is being made.
IdleOpt ==
    [pc |-> "idle", model |-> << >>, deepKeys |-> << >>, searchKeys |-> << >>,
     xDeep |-> FALSE, xSearch |-> FALSE, xDisable |-> FALSE,
     DeepThinking |-> FALSE, OnlineSearch |-> FALSE]

\* The user keys and session ids of the resolves that fill res: header
\* values, which may hold the separator of the table key.
KeyUsers == {<<"a">>, <<"a", "|", "b">>}
KeySessions == {EmptyText, <<"c">>, <<"b", "|", "c">>}

TableKeys == {ConvKey(u, s) : u \in KeyUsers, s \in KeySessions}

\* No entry under a key of the table.
NoEntry == [UserKey |-> "none"]

\* No resolve is in progress and s.convs is empty.
IdleResolve ==
    [pc |-> "idle", userKey |-> EmptyText, sid |-> EmptyText, key |-> EmptyText,
     table |-> [k \in TableKeys |-> NoEntry], n |-> 0]

SideInit ==
    /\ shut = NotClosed
    /\ srv = IdleServe
    /\ opt = IdleOpt
    /\ res = IdleResolve

StoreInit ==
    /\ clock = 0
    /\ millis = 0
    /\ lastTick = 0
    /\ objs = [i \in 1..MaxReqs |-> NoConv]
    /\ convs = [k \in Keys |-> 0]
    /\ users = [u \in UserKeys |-> NoUser]
    /\ dbUsers = [u \in UserKeys |-> NoUser]
    /\ dbConvs = [p \in Pairs |-> NoRow]
    /\ writeCh = << >>
    /\ wr = NoReq
    /\ done = [hd \in Handlers |-> "none"]
    /\ h = [hd \in Handlers |-> IdleHandler]
    /\ cl = IdleCleanup
    /\ aux = [nreqs |-> 0, nsub |-> 0, nclock |-> 0,
              lastSub |-> [p \in Pairs |-> NoReq],
              lastCommit |-> [p \in Pairs |-> NoReq],
              ids |-> [p \in Pairs |-> {}],
              lastRet |-> [k \in Keys |-> 0],
              lastOK |-> [k \in Keys |-> NoRow],
              evicted |-> [k \in Keys |-> NoEvicted],
              base |-> [i \in 1..MaxReqs |-> << >>]]

ChatInit ==
    /\ stream \in Streams
    /\ chat \in {ChatStart(cb) : cb \in BOOLEAN}
    /\ StoreInit
    /\ SideInit

\* httpClient.Do returns and the status is checked.
ChatDo ==
    /\ chat.pc = "do"
    /\ chat' = ChatStep(chat, stream)
    /\ UNCHANGED <<stream, storeVars, sideVars>>

\* One iteration of the read loop.
ChatRead ==
    /\ chat.pc = "read"
    /\ chat' = ChatStep(chat, stream)
    /\ UNCHANGED <<stream, storeVars, sideVars>>

ChatNext == ChatDo \/ ChatRead

SpecChat == ChatInit /\ [][ChatNext]_vars

-----------------------------------------------------------------------------
(* Properties of the stream parser.                                         *)

IsDone(line) == line.data /\ line.payload.type = "done"
IsFragment(line) ==
    line.data /\ line.payload.type = "json" /\ line.payload.answer # EmptyText

\* The index of the first data:[DONE] record, Len + 1 when there is none.
FirstDone(ls) ==
    IF \E i \in 1..Len(ls) : IsDone(ls[i])
    THEN CHOOSE i \in 1..Len(ls) : IsDone(ls[i]) /\ \A j \in 1..(i - 1) : ~IsDone(ls[j])
    ELSE Len(ls) + 1

\* The number of records the body delivers whole: a last line cut by a read
\* error is no record.
Whole(s) ==
    IF s.end = "error" /\ ~s.terminated /\ Len(s.lines) > 0
    THEN Len(s.lines) - 1 ELSE Len(s.lines)

\* The records read before the stream ends ([DONE], end of input or error).
ReadBeforeEnd(s) ==
    SubSeq(s.lines, 1, IF FirstDone(s.lines) - 1 < Whole(s)
                       THEN FirstDone(s.lines) - 1 ELSE Whole(s))

\* The non-empty answer fragments of the valid records of ls, in order.
RECURSIVE Fragments(_)
Fragments(ls) ==
    IF ls = << >> THEN << >>
    ELSE IF IsFragment(Head(ls))
         THEN <<Head(ls).payload.answer>> \o Fragments(Tail(ls))
         ELSE Fragments(Tail(ls))

\* C6: the answer Chat returns is the concatenation, in arrival order, of
\* the non-empty answer fragments of the valid records read before the
\* stream ends; the callback has been invoked once per such fragment, in
\* order, and at every moment exactly for the fragments of the records read
\* so far (so each invocation precedes the next read, and all precede the
\* return). Without a callback nothing is delivered.
C6_AnswerIsConcatenation ==
    /\ chat.chunks = IF chat.hasCb THEN Fragments(SubSeq(stream.lines, 1, chat.pos))
                     ELSE << >>
    /\ chat.full = Concat(Fragments(SubSeq(stream.lines, 1, chat.pos)))
    /\ (chat.pc = "ret" /\ stream.status = "ok") =>
          /\ chat.full = Concat(Fragments(ReadBeforeEnd(stream)))
          /\ chat.hasCb => chat.chunks = Fragments(ReadBeforeEnd(stream))

\* A call that returned after delivering three fragments, not all equal.
C6_Witness ==
    /\ chat.pc = "ret" /\ chat.hasCb /\ ~chat.err
    /\ Len(chat.chunks) = 3
    /\ chat.chunks[1] # chat.chunks[2]
    /\ chat.full = chat.chunks[1] \o chat.chunks[2] \o chat.chunks[3]

\* C7: parsing stops at the first data:[DONE] record: no record after it is
\* read, accumulated or delivered, whatever follows it; and a stream that
\* reaches end of input without [DONE] makes Chat return without error
\* with everything accumulated up to the end.
C7_DoneStopsParsing ==
    LET d == FirstDone(stream.lines)
        before == Fragments(SubSeq(stream.lines, 1, d - 1))
    IN  /\ chat.pos <= d
        /\ (chat.pc = "ret" /\ stream.status = "ok" /\ d <= Whole(stream)) =>
              /\ ~chat.err
              /\ chat.pos = d
              /\ chat.full = Concat(before)
              /\ chat.hasCb => chat.chunks = before
        /\ (chat.pc = "ret" /\ stream.status = "ok" /\ stream.end = "EOF") =>
              /\ ~chat.err
              /\ chat.full = Concat(before)

\* A call that returned at a [DONE] record followed by a valid fragment,
\* with a fragment accumulated before it.
C7_Witness ==
    LET d == FirstDone(stream.lines) IN
    /\ chat.pc = "ret" /\ chat.hasCb
    /\ d < Len(stream.lines)
    /\ IsFragment(stream.lines[d + 1])
    /\ chat.full # EmptyText

-----------------------------------------------------------------------------
(* Conversions between a history and its stored form.                       *)

\* json.Marshal(historyCopy): the copy append([]Message(nil), ...) of an
\* empty history is a nil slice, which marshals to null.
MarshalHistory(hist) ==
    IF hist = << >> THEN [json |-> "null", items |-> << >>]
    ELSE [json |-> "array", items |-> hist]

\* json.Unmarshal([]byte(historyJSON), &history)
UnmarshalHistory(js) == IF js.json = "null" THEN << >> ELSE js.items

\* compressHistory(conv.History): the gzip of the history's JSON, as bytes.
compressHistory(hist) == [gzip |-> hist]

-----------------------------------------------------------------------------
(* Request handlers: GetConversation, getOrCreateUser, performChat.         *)

Key(hd) == ConvKey(h[hd].userKey, h[hd].sid)
Pair(hd) == <<h[hd].userKey, DefaultIfEmpty(h[hd].sid)>>

\* The request ends (a response or an error has been written).
Finish(hd) == [h EXCEPT ![hd] = IdleHandler]

\* The garbage collector: a Conversation that neither the table nor a
\* handler refers to is gone.
Collect(os, table, hs) ==
    [i \in DOMAIN os |->
        IF (\E k \in Keys : table[k] = i) \/ (\E hd \in Handlers : hs[hd].conv = i)
        THEN os[i] ELSE NoConv]

\* The slot a newly constructed Conversation takes.
FreeSlot == CHOOSE i \in DOMAIN objs : objs[i] = NoConv /\ \A j \in 1..(i - 1) : objs[j] # NoConv

\* Lookup that never finds the key, so that every resolve constructs anew.
LookupMiss(key) == 0

\* s.convs[key] under RLock: the object, 0 on a miss.
Lookup(key) == convs[key]

\* The handler goroutine a new request runs in: idle handlers are
\* interchangeable, so the first idle one takes it.
FirstIdle == CHOOSE hd \in Handlers : h[hd].pc = "idle" /\ (hd = "h1" \/ h["h1"].pc # "idle")

\* The record of a key's last eviction once a resolve of the key begins:
\* the first resolve after the eviction is noted when it misses, and the
\* record is dropped when it hits.
FirstResolve(ev, hd, hit) ==
    IF ev = NoEvicted THEN ev
    ELSE IF hit # 0 THEN NoEvicted
    ELSE IF ev.by = "none" THEN [ev EXCEPT !.by = hd] ELSE ev

\* The base of every slot that holds no Conversation is empty.
Based(b, os) == [i \in DOMAIN os |-> IF os[i] = NoConv THEN << >> ELSE b[i]]

\* A request arrives and GetConversation looks the key up in the table.
Arrive(hd) ==
    /\ h[hd].pc = "idle"
    /\ hd = FirstIdle
    /\ aux.nreqs < MaxReqs
    /\ ~TableWLocked
    /\ \E u \in UserKeys, s \in SessionIds, q \in Queries :
        LET key == ConvKey(u, s)
            hit == Lookup(key)
            req == [h[hd] EXCEPT !.userKey = u, !.sid = s, !.query = q,
                                 !.prior = aux.lastOK[key]]
        IN  /\ h' = [h EXCEPT ![hd] =
                        IF hit # 0 THEN [req EXCEPT !.pc = "inc", !.conv = hit]
                        ELSE [req EXCEPT !.pc = "user"]]
            /\ aux' = [aux EXCEPT !.nreqs = @ + 1,
                                  !.lastRet[key] = IF hit # 0 THEN hit ELSE @,
                                  !.evicted[key] = FirstResolve(@, hd, hit)]
    /\ UNCHANGED <<sideVars, stream, chat, clock, millis, lastTick, objs, convs, users,
                   dbUsers, dbConvs, writeCh, wr, done, cl>>

\* ReadBack without the second SELECT: the caller keeps the identity it drew.
ReadBackOwn(hd, row) == [oaid |-> newOAID(hd), miID |-> newMiID(hd)]

\* The identity getOrCreateUser returns after its insert: the row read back.
ReadBack(hd, row) == row

\* getOrCreateUser up to the submission of the insert.
GetUser(hd) ==
    /\ h[hd].pc = "user"
    /\ LET u == h[hd].userKey IN
        \/ /\ users[u] # NoUser
           /\ h' = [h EXCEPT ![hd].pc = "load", ![hd].oaid = users[u].oaid,
                             ![hd].miID = users[u].miID]
           /\ UNCHANGED <<users, writeCh>>
        \/ /\ users[u] = NoUser
           /\ ~DBClosed
           /\ dbUsers[u] # NoUser
           /\ users' = [users EXCEPT ![u] = dbUsers[u]]
           /\ h' = [h EXCEPT ![hd].pc = "load", ![hd].oaid = dbUsers[u].oaid,
                             ![hd].miID = dbUsers[u].miID]
           /\ UNCHANGED writeCh
        \/ /\ users[u] = NoUser
           /\ ~DBClosed
           /\ dbUsers[u] = NoUser
           /\ ~QueueClosed
           /\ Len(writeCh) < WriteChCap
           /\ writeCh' = Append(writeCh,
                            [kind |-> "user", userKey |-> u, oaid |-> newOAID(hd),
                             miID |-> newMiID(hd), done |-> hd])
           /\ h' = [h EXCEPT ![hd].pc = "userWait"]
           /\ UNCHANGED users
    /\ UNCHANGED <<sideVars, stream, chat, clock, millis, lastTick, objs, convs,
                   dbUsers, dbConvs, wr, done, cl, aux>>

\* A QueryRow of the handler fails with an error other than ErrNoRows:
\* GetConversation returns the error and the request ends.
QueryFails(hd) ==
    /\ \/ h[hd].pc = "user" /\ users[h[hd].userKey] = NoUser
       \/ h[hd].pc = "load"
    /\ h' = Finish(hd)
    /\ UNCHANGED <<sideVars, stream, chat, clock, millis, lastTick, objs, convs, users,
                   dbUsers, dbConvs, writeCh, wr, done, cl, aux>>

\* getOrCreateUser after <-done: the error, or the read-back of the row.
UserDone(hd) ==
    /\ h[hd].pc = "userWait"
    /\ done[hd] # "none"
    /\ done' = [done EXCEPT ![hd] = "none"]
    /\ LET u == h[hd].userKey
           id == ReadBack(hd, dbUsers[u]) IN
        IF done[hd] = "err" \/ DBClosed \/ dbUsers[u] = NoUser
        THEN /\ h' = Finish(hd)
             /\ UNCHANGED users
        ELSE /\ users' = [users EXCEPT ![u] = [oaid |-> id.oaid, miID |-> id.miID]]
             /\ h' = [h EXCEPT ![hd].pc = "load", ![hd].oaid = id.oaid,
                               ![hd].miID = id.miID]
    /\ UNCHANGED <<sideVars, stream, chat, clock, millis, lastTick, objs, convs,
                   dbUsers, dbConvs, writeCh, wr, cl, aux>>

\* The internal id of a conversation being constructed: the stored one when
\* the row exists, else newConversationID(oaid).
InternalIDFor(row, oaid, ms) ==
    IF row # NoRow THEN row.internalID ELSE newConversationID(oaid, ms)

\* nowMillis(): the stamp it last returned or a later one (the first call
\* returns stamp 1).
nowMillis == IF millis = 0 THEN {1} ELSE {millis, millis + 1}

\* GetConversation: the row is read and the Conversation is constructed.
LoadConv(hd) ==
    /\ h[hd].pc = "load"
    /\ ~DBClosed
    /\ \E ms \in nowMillis :
        LET row == dbConvs[Pair(hd)]
            conv == [key |-> Key(hd), UserKey |-> h[hd].userKey,
                     ConversationID |-> DefaultIfEmpty(h[hd].sid),
                     OAID |-> h[hd].oaid, MiID |-> h[hd].miID,
                     InternalID |-> InternalIDFor(row, h[hd].oaid, ms),
                     mu |-> "free", InUse |-> 0,
                     History |-> IF row # NoRow THEN UnmarshalHistory(row.history_json)
                                 ELSE << >>,
                     LastActive |-> clock, LastPersist |-> clock, Dirty |-> FALSE]
        IN  /\ millis' = IF row # NoRow THEN millis ELSE ms
            /\ objs' = [objs EXCEPT ![FreeSlot] = conv]
            /\ h' = [h EXCEPT ![hd].pc = "insert", ![hd].conv = FreeSlot]
            /\ aux' = [aux EXCEPT !.ids[Pair(hd)] = @ \cup {conv.InternalID},
                                  !.evicted[Key(hd)] =
                                      IF @ # NoEvicted /\ @.by = hd THEN NoEvicted ELSE @,
                                  !.base[FreeSlot] = conv.History]
    /\ UNCHANGED <<sideVars, stream, chat, clock, lastTick, convs, users, dbUsers, dbConvs,
                   writeCh, wr, done, cl>>

\* GetConversation: s.convs[key] = conv under Lock, and the return.
Insert(hd) ==
    /\ h[hd].pc = "insert"
    /\ ~TableRLocked /\ ~TableWLocked
    /\ convs' = [convs EXCEPT ![Key(hd)] = h[hd].conv]
    /\ h' = [h EXCEPT ![hd].pc = "inc"]
    /\ objs' = Collect(objs, convs', h')
    /\ aux' = [aux EXCEPT !.lastRet[Key(hd)] = h[hd].conv,
                          !.base = Based(@, objs')]
    /\ UNCHANGED <<sideVars, stream, chat, clock, millis, lastTick, users, dbUsers,
                   dbConvs, writeCh, wr, done, cl>>

\* performChat: atomic.AddInt32(&conv.InUse, 1)
Inc(hd) ==
    /\ h[hd].pc = "inc"
    /\ objs' = [objs EXCEPT ![h[hd].conv].InUse = @ + 1]
    /\ h' = [h EXCEPT ![hd].pc = "lock"]
    /\ UNCHANGED <<sideVars, stream, chat, clock, millis, lastTick, convs, users, dbUsers,
                   dbConvs, writeCh, wr, done, cl, aux>>

\* The payload Chat builds from the conversation before the call.
Payload(conv) ==
    [ConversationID |-> conv.InternalID, OAID |-> conv.OAID, MiID |-> conv.MiID,
     RawLastQueryList |-> compressHistory(conv.History)]

\* performChat: conv.mu.Lock(), LastActive = now, and Chat up to the request
\* it sends.
Lock(hd) ==
    /\ h[hd].pc = "lock"
    /\ objs[h[hd].conv].mu = "free"
    /\ objs' = [objs EXCEPT ![h[hd].conv].mu = hd, ![h[hd].conv].LastActive = clock]
    /\ h' = [h EXCEPT ![hd].pc = "upstream"]
    /\ UNCHANGED <<sideVars, stream, chat, clock, millis, lastTick, convs, users, dbUsers,
                   dbConvs, writeCh, wr, done, cl, aux>>

\* AppendTurns that leaves the dirty flag as it is.
AppendTurnsClean(conv, query, full, err) ==
    IF ~err /\ NotBlank(full)
    THEN [conv EXCEPT !.History = @ \o <<Message("user", query), Message("assistant", full)>>]
    ELSE conv

\* AppendTurns without the err == nil test: a partial answer is appended.
AppendTurnsAnyway(conv, query, full, err) ==
    IF NotBlank(full)
    THEN [conv EXCEPT !.History = @ \o <<Message("user", query), Message("assistant", full)>>,
                      !.Dirty = TRUE]
    ELSE conv

\* performChat after Chat returned (full, err): the append and the flag.
AppendTurns(conv, query, full, err) ==
    IF ~err /\ NotBlank(full)
    THEN [conv EXCEPT !.History = @ \o <<Message("user", query), Message("assistant", full)>>,
                      !.Dirty = TRUE]
    ELSE conv

\* Upstream without the conv.mu.Unlock(): the conversation stays locked.
UpstreamKeepsLock(hd) ==
    /\ h[hd].pc = "upstream"
    /\ \E s \in UpstreamStreams :
        LET r == RunChat(ChatStart(TRUE), s)
            c == h[hd].conv
            after == AppendTurns(objs[c], h[hd].query, r.full, r.err)
        IN  /\ objs' = [objs EXCEPT ![c] = [after EXCEPT !.LastActive = clock]]
            /\ h' = [h EXCEPT ![hd].pc = "dec", ![hd].full = r.full, ![hd].err = r.err,
                              ![hd].delivered = (r.chunks # << >>)]
    /\ UNCHANGED <<sideVars, stream, chat, clock, millis, lastTick, convs, users, dbUsers,
                   dbConvs, writeCh, wr, done, cl, aux>>

\* performChat: Chat returns; the turn pair is appended on success,
\* LastActive is stamped and the conversation is unlocked.
Upstream(hd) ==
    /\ h[hd].pc = "upstream"
    /\ \E s \in UpstreamStreams :
        LET r == RunChat(ChatStart(TRUE), s)
            c == h[hd].conv
            after == AppendTurns(objs[c], h[hd].query, r.full, r.err)
        IN  /\ objs' = [objs EXCEPT ![c] = [after EXCEPT !.LastActive = clock, !.mu = "free"]]
            /\ h' = [h EXCEPT ![hd].pc = "dec", ![hd].full = r.full, ![hd].err = r.err,
                              ![hd].delivered = (r.chunks # << >>)]
    /\ UNCHANGED <<sideVars, stream, chat, clock, millis, lastTick, convs, users, dbUsers,
                   dbConvs, writeCh, wr, done, cl, aux>>

\* Dec that leaves the counter as it is.
DecLeaks(hd) ==
    /\ h[hd].pc = "dec"
    /\ h' = Finish(hd)
    /\ objs' = Collect(objs, convs, h')
    /\ aux' = [aux EXCEPT !.base = Based(@, objs')]
    /\ UNCHANGED <<sideVars, stream, chat, clock, millis, lastTick, convs, users, dbUsers,
                   dbConvs, writeCh, wr, done, cl>>

\* performChat: the deferred atomic.AddInt32(&conv.InUse, -1), and the
\* handler writes its response.
Dec(hd) ==
    /\ h[hd].pc = "dec"
    /\ h' = Finish(hd)
    /\ objs' = Collect([objs EXCEPT ![h[hd].conv].InUse = @ - 1], convs, h')
    /\ aux' = [aux EXCEPT !.lastOK[Key(hd)] =
                  IF ~h[hd].err /\ NotBlank(h[hd].full)
                  THEN [internalID |-> objs[h[hd].conv].InternalID,
                        turns |-> <<Message("user", h[hd].query),
                                    Message("assistant", h[hd].full)>>]
                  ELSE @,
                          !.base = Based(@, objs')]
    /\ UNCHANGED <<sideVars, stream, chat, clock, millis, lastTick, convs, users, dbUsers,
                   dbConvs, writeCh, wr, done, cl>>

-----------------------------------------------------------------------------
(* The write queue: Store.writeLoop.                                        *)

\* NextWrite taking the newest request instead of the oldest.
NextWriteNewest(q) == q[Len(q)]

\* for req := range s.writeCh: the request the worker receives next.
NextWrite(q) == Head(q)
RestWrites(q) == Tail(q)

\* Report that delivers nothing.
ReportNothing(req, outcome) == done

\* req.done <- err, when a completion channel was supplied.
Report(req, outcome) ==
    IF req.done \in Handlers THEN [done EXCEPT ![req.done] = outcome] ELSE done

\* INSERT OR IGNORE INTO users
InsertOrIgnore(row, req) ==
    IF row = NoUser THEN [oaid |-> req.oaid, miID |-> req.miID] ELSE row

\* INSERT INTO conversations ... ON CONFLICT DO UPDATE SET ...
Upsert(row, req) ==
    [internalID |-> req.internalID, history_json |-> req.history_json,
     updated_at |-> req.updated_at, seq |-> req.seq]

\* The worker receives a request and s.db.Begin() succeeds.
WriteBegin ==
    /\ wr = NoReq
    /\ writeCh # << >>
    /\ ~DBClosed
    /\ wr' = NextWrite(writeCh)
    /\ writeCh' = RestWrites(writeCh)
    /\ UNCHANGED <<sideVars, stream, chat, clock, millis, lastTick, objs, convs, users,
                   dbUsers, dbConvs, done, h, cl, aux>>

\* The worker receives a request and s.db.Begin() fails: the error is
\* reported and the request is dropped.
WriteBeginFails ==
    /\ wr = NoReq
    /\ writeCh # << >>
    /\ writeCh' = RestWrites(writeCh)
    /\ done' = Report(NextWrite(writeCh), "err")
    /\ UNCHANGED <<sideVars, stream, chat, clock, millis, lastTick, objs, convs, users,
                   dbUsers, dbConvs, wr, h, cl, aux>>

\* req.fn(tx) and tx.Commit() succeed.
WriteCommit ==
    /\ wr # NoReq
    /\ IF wr.kind = "user"
       THEN /\ dbUsers' = [dbUsers EXCEPT ![wr.userKey] = InsertOrIgnore(@, wr)]
            /\ UNCHANGED dbConvs
       ELSE /\ dbConvs' = [dbConvs EXCEPT ![wr.pair] = Upsert(@, wr)]
            /\ UNCHANGED dbUsers
    /\ done' = Report(wr, "ok")
    /\ wr' = NoReq
    /\ aux' = IF wr.kind = "conv" THEN [aux EXCEPT !.lastCommit[wr.pair] = wr] ELSE aux
    /\ UNCHANGED <<sideVars, stream, chat, clock, millis, lastTick, objs, convs, users,
                   writeCh, h, cl>>

\* req.fn(tx) fails and the transaction is rolled back, or tx.Commit() fails.
WriteFails ==
    /\ wr # NoReq
    /\ done' = Report(wr, "err")
    /\ wr' = NoReq
    /\ UNCHANGED <<sideVars, stream, chat, clock, millis, lastTick, objs, convs, users,
                   dbUsers, dbConvs, writeCh, h, cl, aux>>

-----------------------------------------------------------------------------
(* The eviction loop: Store.cleanupLoop and Store.persistConversation.      *)

\* persistConversation under conv.mu: the write request it will submit.
Snapshot(conv, now, seq) ==
    [kind |-> "conv", pair |-> <<conv.UserKey, conv.ConversationID>>,
     internalID |-> conv.InternalID, history_json |-> MarshalHistory(conv.History),
     updated_at |-> now, done |-> "nil", seq |-> seq]

\* persistConversation under conv.mu: what it leaves in the conversation.
Persisted(conv, now) == [conv EXCEPT !.Dirty = FALSE, !.LastPersist = now]

\* The scan pass's test for marking a conversation for eviction.
Idle(conv, now) == now - conv.LastActive >= evictAfter

\* The scan pass's test for persisting a conversation.
NeedsPersist(conv, now) == conv.Dirty /\ now - conv.LastPersist >= persistAfter

\* Mark that never marks.
MarkNever(keys, key, conv, now) == keys

\* evictKeys = append(evictKeys, key), when the conversation is idle.
Mark(keys, key, conv, now) == IF Idle(conv, now) THEN Append(keys, key) ELSE keys

\* The scan pass after an iteration: when the range is over, s.mu.RUnlock(),
\* and the tick ends if nothing is marked.
AfterScan(c) ==
    IF c.toScan # {} THEN c
    ELSE IF c.evictKeys = << >> THEN IdleCleanup ELSE [c EXCEPT !.pc = "unlocked"]


\* The second pass after an iteration: when the keys are done, s.mu.Unlock()
\* and the tick ends.
AfterEvict(c) == IF c.evictKeys = << >> THEN IdleCleanup ELSE c

\* <-ticker.C; now := time.Now(); s.mu.RLock(); the range starts.
Tick ==
    /\ cl.pc = "idle"
    /\ clock >= lastTick + cleanupPeriod
    /\ lastTick' = clock
    /\ cl' = AfterScan([cl EXCEPT !.pc = "scan", !.now = clock,
                        !.toScan = {k \in Keys : convs[k] # 0},
                        !.evictKeys = << >>,
                        !.due = [k \in {x \in Keys : convs[x] # 0 /\ objs[convs[x]].InUse = 0
                                                      /\ Idle(objs[convs[x]], clock)}
                                   |-> [obj |-> convs[k], hist |-> objs[convs[k]].History,
                                        dirty |-> objs[convs[k]].Dirty]],
                        !.spared = {}])
    /\ UNCHANGED <<sideVars, stream, chat, clock, millis, objs, convs, users, dbUsers,
                   dbConvs, writeCh, wr, done, h, aux>>

\* The scan pass reaches a conversation and loads its in-use counter: in
\* use, it is passed over.
ScanCheck ==
    /\ cl.pc = "scan"
    /\ \E k \in cl.toScan :
        LET conv == objs[convs[k]] IN
        IF conv.InUse > 0
        THEN cl' = AfterScan([cl EXCEPT !.toScan = @ \ {k}, !.spared = @ \cup {k}])
        ELSE cl' = [cl EXCEPT !.pc = "scanRead", !.cur = k]
    /\ UNCHANGED <<sideVars, stream, chat, clock, millis, lastTick, objs, convs, users,
                   dbUsers, dbConvs, writeCh, wr, done, h, aux>>

\* The scan pass reads Dirty and LastPersist, and LastActive when there is
\* nothing to persist, without conv.mu: the values are those of the moment
\* of the read, whatever a request has done since the counter was loaded.
ScanRead ==
    /\ cl.pc = "scanRead"
    /\ LET k == cl.cur
           conv == objs[convs[k]] IN
        IF NeedsPersist(conv, cl.now)
        THEN cl' = [cl EXCEPT !.pc = "scanPersist"]
        ELSE cl' = AfterScan([cl EXCEPT !.pc = "scan", !.toScan = @ \ {k},
                                        !.cur = EmptyText,
                                        !.evictKeys = Mark(@, k, conv, cl.now),
                                        !.spared = IF Idle(conv, cl.now) THEN @
                                                   ELSE @ \cup {k}])
    /\ UNCHANGED <<sideVars, stream, chat, clock, millis, lastTick, objs, convs, users,
                   dbUsers, dbConvs, writeCh, wr, done, h, aux>>

\* persistConversation, called by either pass: the part under conv.mu.
PersistLock ==
    /\ cl.pc \in {"scanPersist", "evictPersist"}
    /\ LET c == convs[cl.cur] IN
        /\ objs[c].mu = "free"
        /\ cl' = [cl EXCEPT !.pc = IF cl.pc = "scanPersist" THEN "scanSend" ELSE "evictSend",
                            !.snap = Snapshot(objs[c], cl.now, aux.nsub + 1)]
        /\ objs' = [objs EXCEPT ![c] = Persisted(@, cl.now)]
        /\ aux' = [aux EXCEPT !.nsub = @ + 1]
    /\ UNCHANGED <<sideVars, stream, chat, clock, millis, lastTick, convs, users,
                   dbUsers, dbConvs, writeCh, wr, done, h>>

\* The scan pass: persistConversation sends on s.writeCh, then the idle test.
ScanSend ==
    /\ cl.pc = "scanSend"
    /\ ~QueueClosed
    /\ Len(writeCh) < WriteChCap
    /\ writeCh' = Append(writeCh, cl.snap)
    /\ cl' = AfterScan([cl EXCEPT !.pc = "scan", !.toScan = @ \ {cl.cur},
                                  !.snap = NoReq, !.cur = EmptyText,
                                  !.evictKeys = Mark(@, cl.cur, objs[convs[cl.cur]], cl.now),
                                  !.spared = IF Idle(objs[convs[cl.cur]], cl.now) THEN @
                                             ELSE @ \cup {cl.cur}])
    /\ aux' = [aux EXCEPT !.lastSub[cl.snap.pair] = cl.snap,
                          !.base[convs[cl.cur]] = UnmarshalHistory(cl.snap.history_json)]
    /\ UNCHANGED <<sideVars, stream, chat, clock, millis, lastTick, objs, convs, users,
                   dbUsers, dbConvs, wr, done, h>>

\* s.mu.Lock() for the second pass.
EvictBegin ==
    /\ cl.pc = "unlocked"
    /\ cl' = [cl EXCEPT !.pc = "evict"]
    /\ UNCHANGED <<sideVars, stream, chat, clock, millis, lastTick, objs, convs, users,
                   dbUsers, dbConvs, writeCh, wr, done, h, aux>>

\* The second pass's re-check of a marked key: whether the conversation is
\* to be skipped (gone from the table, or in use).
Skip(key) == convs[key] = 0 \/ objs[convs[key]].InUse > 0

\* The second pass reaches a marked key.
EvictCheck ==
    /\ cl.pc = "evict"
    /\ cl.evictKeys # << >>
    /\ LET k == Head(cl.evictKeys) IN
        IF Skip(k)
        THEN cl' = AfterEvict([cl EXCEPT !.evictKeys = Tail(@), !.spared = @ \cup {k}])
        ELSE cl' = [cl EXCEPT !.pc = "evictPersist", !.cur = k]
    /\ UNCHANGED <<sideVars, stream, chat, clock, millis, lastTick, objs, convs, users,
                   dbUsers, dbConvs, writeCh, wr, done, h, aux>>

\* delete(s.convs, key)
Delete(key) == [convs EXCEPT ![key] = 0]

\* The second pass: persistConversation sends on s.writeCh, then the delete.
EvictSend ==
    /\ cl.pc = "evictSend"
    /\ ~QueueClosed
    /\ Len(writeCh) < WriteChCap
    /\ writeCh' = Append(writeCh, cl.snap)
    /\ convs' = Delete(cl.cur)
    /\ objs' = Collect(objs, convs', h)
    /\ cl' = AfterEvict([cl EXCEPT !.pc = "evict", !.evictKeys = Tail(@),
                                   !.snap = NoReq, !.cur = EmptyText])
    /\ aux' = [aux EXCEPT !.lastSub[cl.snap.pair] = cl.snap,
                          !.lastRet[cl.cur] = 0,
                          !.evicted[cl.cur] =
                              [by |-> "none", History |-> objs[convs[cl.cur]].History],
                          !.base = Based([@ EXCEPT ![convs[cl.cur]] =
                                             UnmarshalHistory(cl.snap.history_json)], objs')]
    /\ UNCHANGED <<sideVars, stream, chat, clock, millis, lastTick, users,
                   dbUsers, dbConvs, wr, done, h>>

-----------------------------------------------------------------------------
(* Time, and the specification of the store.                                *)

\* Time passes.
Advance ==
    /\ aux.nclock < MaxClock
    /\ clock' = clock + persistAfter
    /\ aux' = [aux EXCEPT !.nclock = @ + 1]
    /\ UNCHANGED <<sideVars, stream, chat, millis, lastTick, objs, convs, users, dbUsers,
                   dbConvs, writeCh, wr, done, h, cl>>

Init ==
    /\ stream = [status |-> "ok", lines |-> << >>, end |-> "EOF", terminated |-> TRUE]
    /\ chat = ChatStart(FALSE)
    /\ StoreInit
    /\ SideInit

Next ==
    \/ \E hd \in Handlers : Arrive(hd)
    \/ \E hd \in Handlers : GetUser(hd)
    \/ \E hd \in Handlers : QueryFails(hd)
    \/ \E hd \in Handlers : UserDone(hd)
    \/ \E hd \in Handlers : LoadConv(hd)
    \/ \E hd \in Handlers : Insert(hd)
    \/ \E hd \in Handlers : Inc(hd)
    \/ \E hd \in Handlers : Lock(hd)
    \/ \E hd \in Handlers : Upstream(hd)
    \/ \E hd \in Handlers : Dec(hd)
    \/ WriteBegin
    \/ WriteBeginFails
    \/ WriteCommit
    \/ WriteFails
    \/ Tick
    \/ ScanCheck
    \/ ScanRead
    \/ PersistLock
    \/ ScanSend
    \/ EvictBegin
    \/ EvictCheck
    \/ EvictSend
    \/ Advance

Spec == Init /\ [][Next]_vars

\* The steps of one handler goroutine once its request has arrived.
HandlerStep(hd) ==
    \/ GetUser(hd)
    \/ QueryFails(hd)
    \/ UserDone(hd)
    \/ LoadConv(hd)
    \/ Insert(hd)
    \/ Inc(hd)
    \/ Lock(hd)
    \/ Upstream(hd)
    \/ Dec(hd)

\* The steps of the writeLoop goroutine.
WorkerStep == WriteBegin \/ WriteBeginFails \/ WriteCommit \/ WriteFails

\* The steps of the cleanupLoop goroutine.
LoopStep ==
    \/ Tick
    \/ ScanCheck
    \/ ScanRead
    \/ PersistLock
    \/ ScanSend
    \/ EvictBegin
    \/ EvictCheck
    \/ EvictSend

\* The scheduler runs every goroutine that can take a step, the write
\* worker included, and every upstream call returns (Upstream is a
\* handler's step).
Fairness ==
    /\ \A hd \in Handlers : WF_vars(HandlerStep(hd))
    /\ WF_vars(WorkerStep)
    /\ WF_vars(LoopStep)

\* Time passes in one piece, long enough for a conversation to fall due for
\* its persist and for its eviction at the next tick.
Elapse ==
    /\ aux.nclock < MaxElapse
    /\ Cardinality({hd \in Handlers : h[hd].pc # "idle"}) <= MaxInFlight
    /\ clock' = clock + evictAfter
    /\ aux' = [aux EXCEPT !.nclock = @ + 1]
    /\ UNCHANGED <<sideVars, stream, chat, millis, lastTick, objs, convs, users, dbUsers,
                   dbConvs, writeCh, wr, done, h, cl>>

\* The store before Close: requests arrive, the goroutines run, time passes.
NextLive ==
    \/ \E hd \in Handlers : Arrive(hd)
    \/ \E hd \in Handlers : HandlerStep(hd)
    \/ WorkerStep
    \/ LoopStep
    \/ Elapse

SpecLive == Init /\ [][NextLive]_vars /\ Fairness

-----------------------------------------------------------------------------
(* Shutdown: Store.Close, run by another goroutine while the store works.   *)

\* close(s.stopCh)
CloseStop ==
    /\ shut.pc = "open" /\ shut.panic = "none"
    /\ shut' = [shut EXCEPT !.pc = "stopped"]
    /\ UNCHANGED <<chatVars, storeVars, srv, opt, res>>

\* close(s.writeCh)
CloseQueue ==
    /\ shut.pc = "stopped" /\ shut.panic = "none"
    /\ shut' = [shut EXCEPT !.pc = "queueClosed"]
    /\ UNCHANGED <<chatVars, storeVars, srv, opt, res>>

\* s.db.Close()
CloseDB ==
    /\ shut.pc = "queueClosed" /\ shut.panic = "none"
    /\ shut' = [shut EXCEPT !.pc = "dbClosed"]
    /\ UNCHANGED <<chatVars, storeVars, srv, opt, res>>

\* cleanupLoop at its select with stopCh closed: case <-s.stopCh, return.
\* (With a tick due as well the select may take either case, so Tick stays
\* enabled.)
LoopStops ==
    /\ cl.pc = "idle"
    /\ StopClosed
    /\ cl' = [IdleCleanup EXCEPT !.pc = "stopped"]
    /\ UNCHANGED <<chatVars, sideVars, clock, millis, lastTick, objs, convs, users,
                   dbUsers, dbConvs, writeCh, wr, done, h, aux>>

\* writeLoop: the range over the closed and drained channel ends and the
\* worker returns.
WorkerExits ==
    /\ QueueClosed
    /\ shut.worker = "running"
    /\ wr = NoReq
    /\ writeCh = << >>
    /\ shut' = [shut EXCEPT !.worker = "exited"]
    /\ UNCHANGED <<chatVars, storeVars, srv, opt, res>>

\* A send on the closed channel panics, and a panic in any goroutine ends
\* the process: every goroutine and all memory are gone, the tables stay.
Crashed(who) ==
    /\ shut' = [shut EXCEPT !.panic = who, !.worker = "crashed"]
    /\ h' = [hd \in Handlers |-> [IdleHandler EXCEPT !.pc = "crashed"]]
    /\ cl' = [IdleCleanup EXCEPT !.pc = "crashed"]
    /\ wr' = NoReq
    /\ writeCh' = << >>
    /\ objs' = [i \in DOMAIN objs |-> NoConv]
    /\ convs' = [k \in Keys |-> 0]
    /\ users' = [u \in UserKeys |-> NoUser]
    /\ done' = [hd \in Handlers |-> "none"]
    /\ aux' = [aux EXCEPT !.base = Based(@, objs')]
    /\ UNCHANGED <<chatVars, srv, opt, res, clock, millis, lastTick, dbUsers, dbConvs>>

\* persistConversation, called by the eviction loop, reaches
\* s.writeCh <- writeRequest{...} with the channel closed.
LoopSendsOnClosed ==
    /\ cl.pc \in {"scanSend", "evictSend"}
    /\ QueueClosed
    /\ Crashed("cleanupLoop")

\* getOrCreateUser, called by a handler, reaches s.writeCh <- writeRequest{...}
\* with the channel closed.
HandlerSendsOnClosed(hd) ==
    /\ h[hd].pc = "user"
    /\ users[h[hd].userKey] = NoUser
    /\ ~DBClosed
    /\ dbUsers[h[hd].userKey] = NoUser
    /\ QueueClosed
    /\ Crashed("getOrCreateUser")

\* The handler goroutines that run during the shutdown.
ShutdownHandlers == {"h1"}

NextClose ==
    \/ \E hd \in ShutdownHandlers : Arrive(hd)
    \/ \E hd \in ShutdownHandlers : GetUser(hd)
    \/ \E hd \in ShutdownHandlers : QueryFails(hd)
    \/ \E hd \in ShutdownHandlers : UserDone(hd)
    \/ \E hd \in ShutdownHandlers : LoadConv(hd)
    \/ \E hd \in ShutdownHandlers : Insert(hd)
    \/ \E hd \in ShutdownHandlers : Inc(hd)
    \/ \E hd \in ShutdownHandlers : Lock(hd)
    \/ \E hd \in ShutdownHandlers : Upstream(hd)
    \/ \E hd \in ShutdownHandlers : Dec(hd)
    \/ WriteBegin
    \/ WriteBeginFails
    \/ WriteCommit
    \/ WriteFails
    \/ Tick
    \/ ScanCheck
    \/ ScanRead
    \/ PersistLock
    \/ ScanSend
    \/ EvictBegin
    \/ EvictCheck
    \/ EvictSend
    \/ Advance
    \/ CloseStop
    \/ CloseQueue
    \/ CloseDB
    \/ LoopStops
    \/ WorkerExits
    \/ LoopSendsOnClosed
    \/ \E hd \in ShutdownHandlers : HandlerSendsOnClosed(hd)

SpecClose == Init /\ [][NextClose]_vars

-----------------------------------------------------------------------------
(* One request through the mux: methodOnly, the handler, and the response   *)
(* it writes. The store side of the same handlers (GetConversation and      *)
(* performChat's effect on the conversation) is in the actions above; here  *)
(* GetConversation is its outcome, and performChat is the Chat call.        *)

Routes == {"/health", "/v1/chat/completions", "/v1/responses", "/v1/messages"}
Methods == {"GET", "POST", "PUT"}

\* The method each route is registered with.
RouteMethod(route) == IF route = "/health" THEN "GET" ELSE "POST"

\* How the handler fares before the upstream call: the body does not
\* parse, no user text is found, GetConversation fails, or all is well.
Pres == {"ok", "invalid_json", "missing_user_message", "store_error"}

\* The upstream responses of the served requests: newline-terminated
\* streams of fragments, empty answers, malformed records and [DONE].
ServeLines ==
    {DataLine(<<"a">>), DataLine(<<"b">>), DataLine(EmptyText), DoneLine,
     [data |-> TRUE, payload |-> [type |-> "bad", answer |-> EmptyText]]}

ServeStreams ==
    {s \in Streams : s.terminated /\ \A i \in 1..Len(s.lines) : s.lines[i] \in ServeLines}

\* What the handler writes: an SSE event or a data: line, a JSON body, or
\* an error body. ev names it; role, text and finish are the fields of its
\* payload the protocols differ in.
Event(ev, role, text, finish) == [ev |-> ev, role |-> role, text |-> text, finish |-> finish]

\* writeSSEData(w, newChatChunk(id, created, model, content, includeRole))
newChatChunk(content, includeRole) ==
    Event("chat.completion.chunk", IF includeRole THEN "assistant" ELSE "", content, "null")

\* The chunk with finish_reason "stop", and the termination marker.
finishChunk == [newChatChunk(EmptyText, FALSE) EXCEPT !.finish = "stop"]
DoneMarker == Event("data: [DONE]", "", EmptyText, "")

\* writeSSEEvent(w, event, payload)
SSEEvent(ev, text) == Event(ev, "", text, "")

\* writeOpenAIError / writeClaudeError: the body, by the protocol of the route.
ErrorBody(route, msg) ==
    Event(IF route = "/v1/messages" THEN "claude.error" ELSE "openai.error", "", msg, "")

\* writeJSON of the complete response.
JSONBody(route, full) ==
    Event("json", IF route = "/health" THEN "" ELSE "assistant", full,
          IF route = "/health" THEN ""
          ELSE IF route = "/v1/messages" THEN "end_turn"
          ELSE IF route = "/v1/chat/completions" THEN "stop" ELSE "")

\* methodOnly that lets every method through.
methodAny(method, m) == TRUE

\* methodOnly: whether the wrapped handler is invoked.
methodOnly(method, m) == method = m

\* What a streaming handler writes before performChat.
StartEventsNone(route) == << >>

StartEvents(route) ==
    CASE route = "/v1/responses" -> <<SSEEvent("response.created", EmptyText)>>
      [] route = "/v1/messages" ->
            <<SSEEvent("message_start", EmptyText), SSEEvent("content_block_start", EmptyText)>>
      [] OTHER -> << >>

\* onChunk that never sends the role chunk.
onChunkNoRole(route, sentRole, text) ==
    CASE route = "/v1/chat/completions" -> <<newChatChunk(text, FALSE)>>
      [] route = "/v1/responses" -> <<SSEEvent("response.output_text.delta", text)>>
      [] OTHER -> <<SSEEvent("content_block_delta", text)>>

\* The onChunk closure of each handler: what it writes for a fragment.
onChunk(route, sentRole, text) ==
    CASE route = "/v1/chat/completions" ->
            (IF sentRole THEN << >> ELSE <<newChatChunk(EmptyText, TRUE)>>)
            \o <<newChatChunk(text, FALSE)>>
      [] route = "/v1/responses" -> <<SSEEvent("response.output_text.delta", text)>>
      [] OTHER -> <<SSEEvent("content_block_delta", text)>>

\* EndEvents without the output_text.done event.
EndEventsNoDone(route, full) ==
    CASE route = "/v1/chat/completions" -> <<finishChunk, DoneMarker>>
      [] route = "/v1/responses" -> <<SSEEvent("response.completed", full)>>
      [] OTHER ->
            <<SSEEvent("content_block_stop", EmptyText),
              Event("message_delta", "", EmptyText, "end_turn"),
              SSEEvent("message_stop", EmptyText)>>

\* What a streaming handler writes after performChat returned without error.
EndEvents(route, full) ==
    CASE route = "/v1/chat/completions" -> <<finishChunk, DoneMarker>>
      [] route = "/v1/responses" ->
            <<SSEEvent("response.output_text.done", full),
              SSEEvent("response.completed", full)>>
      [] OTHER ->
            <<SSEEvent("content_block_stop", EmptyText),
              Event("message_delta", "", EmptyText, "end_turn"),
              SSEEvent("message_stop", EmptyText)>>

\* The status the client sees once the handler returned: the one written,
\* else 200.
Returned(s) == [s EXCEPT !.pc = "done", !.status = IF @ = 0 THEN 200 ELSE @]

\* A request reaches the mux.
Request ==
    /\ srv.pc = "idle"
    /\ \E m \in Methods, r \in Routes, st \in BOOLEAN, pre \in Pres :
        srv' = [srv EXCEPT !.pc = "route", !.method = m, !.route = r,
                           !.streaming = st, !.pre = pre]
    /\ UNCHANGED <<chatVars, storeVars, shut, opt, res>>

\* methodOnly: 405 and return, or the handler is invoked.
Dispatch ==
    /\ srv.pc = "route"
    /\ srv' = IF methodOnly(srv.method, RouteMethod(srv.route))
              THEN [srv EXCEPT !.pc = "handler", !.invoked = @ + 1]
              ELSE [srv EXCEPT !.pc = "done", !.status = 405]
    /\ UNCHANGED <<chatVars, storeVars, shut, opt, res>>

\* The handler up to performChat: handleHealth answers; the others answer
\* an error, or write the stream's first events when streaming.
HandlerStart ==
    /\ srv.pc = "handler"
    /\ IF srv.route = "/health"
       THEN /\ srv' = Returned([srv EXCEPT !.out = <<JSONBody(srv.route, <<"ok">>)>>])
            /\ UNCHANGED chat
       ELSE IF srv.pre # "ok"
       THEN /\ srv' = Returned([srv EXCEPT
                          !.status = IF srv.pre = "store_error" THEN 500 ELSE 400,
                          !.out = <<ErrorBody(srv.route, srv.pre)>>])
            /\ UNCHANGED chat
       ELSE /\ srv' = [srv EXCEPT !.pc = "chat",
                           !.status = IF srv.streaming /\ StartEvents(srv.route) # << >>
                                      THEN 200 ELSE @,
                           !.out = IF srv.streaming THEN StartEvents(srv.route) ELSE << >>]
            /\ chat' = ChatStart(srv.streaming)
    /\ UNCHANGED <<stream, storeVars, shut, opt, res>>

\* performChat: httpClient.Do, once, and the response it gets.
ServeDo ==
    /\ srv.pc = "chat"
    /\ chat.pc = "do"
    /\ \E s \in ServeStreams :
        /\ stream' = s
        /\ chat' = ChatStep(chat, s)
    /\ srv' = [srv EXCEPT !.calls = @ + 1]
    /\ UNCHANGED <<storeVars, shut, opt, res>>

\* performChat: one iteration of Chat's read loop; a fragment goes to onChunk.
ServeRead ==
    /\ srv.pc = "chat"
    /\ chat.pc = "read"
    /\ chat' = ChatStep(chat, stream)
    /\ srv' = IF Len(chat'.chunks) > Len(chat.chunks)
              THEN [srv EXCEPT !.out = @ \o onChunk(srv.route, srv.sentRole,
                                                  chat'.chunks[Len(chat'.chunks)]),
                               !.sentRole = TRUE, !.status = 200]
              ELSE srv
    /\ UNCHANGED <<stream, storeVars, shut, opt, res>>

\* The handler after performChat returned (full, err).
ServeFinish ==
    /\ srv.pc = "chat"
    /\ chat.pc = "ret"
    /\ srv' = Returned(
                IF srv.streaming
                THEN IF chat.err THEN srv
                     ELSE [srv EXCEPT !.out = @ \o EndEvents(srv.route, chat.full),
                                      !.status = 200]
                ELSE IF chat.err
                     THEN [srv EXCEPT !.status = 502,
                                      !.out = <<ErrorBody(srv.route, "upstream_error")>>]
                     ELSE [srv EXCEPT !.status = 200,
                                      !.out = <<JSONBody(srv.route, chat.full)>>])
    /\ UNCHANGED <<chatVars, storeVars, shut, opt, res>>

ServeNext ==
    \/ Request
    \/ Dispatch
    \/ HandlerStart
    \/ ServeDo
    \/ ServeRead
    \/ ServeFinish

SpecServe == Init /\ [][ServeNext]_vars

-----------------------------------------------------------------------------
(* parseRequestOptions.                                                     *)

\* A model name is a sequence of tokens: a flag marker, in lower case or
\* not, or text that holds no marker. The empty name is an absent (or
\* non-string) model field.
Tokens == {"x", "-thinking", "-search", "-Search"}
ModelNames == SeqsUpTo(Tokens, MaxTokens)

\* strings.ToLower(modelStr)
ToLower(name) == [i \in 1..Len(name) |-> IF name[i] = "-Search" THEN "-search" ELSE name[i]]

\* strings.Contains(modelStr, marker)
Contains(name, marker) == \E i \in 1..Len(name) : name[i] = marker

\* parseModelFlags(body["model"])
parseModelFlags(model) ==
    IF model = << >> THEN [deep |-> FALSE, search |-> FALSE, hasFlag |-> FALSE]
    ELSE LET deep == Contains(ToLower(model), "-thinking")
             search == Contains(ToLower(model), "-search")
         IN  [deep |-> deep, search |-> search, hasFlag |-> deep \/ search]

\* What the body holds under one key: nothing (or a value that is no
\* bool), true or false.
KeyValues == {"absent", "true", "false"}

\* getBoolOptional(body, keys...): the first key that holds a bool.
RECURSIVE getBoolOptional(_)
getBoolOptional(vals) ==
    IF vals = << >> THEN [val |-> FALSE, ok |-> FALSE]
    ELSE IF Head(vals) # "absent" THEN [val |-> Head(vals) = "true", ok |-> TRUE]
    ELSE getBoolOptional(Tail(vals))

\* parseRequestOptions(body, r): DeepThinking and OnlineSearch.
parseRequestOptions(o) ==
    LET bodyDeep == getBoolOptional(o.deepKeys)
        bodySearch == getBoolOptional(o.searchKeys)
        deep0 == IF bodyDeep.ok THEN bodyDeep.val ELSE TRUE
        search0 == IF bodySearch.ok THEN bodySearch.val ELSE TRUE
        deep1 == IF o.xDeep THEN TRUE ELSE deep0
        search1 == IF o.xSearch THEN TRUE ELSE search0
        search2 == IF o.xDisable THEN FALSE ELSE search1
        flags == parseModelFlags(o.model)
    IN  IF flags.hasFlag
        THEN IF flags.deep /\ flags.search THEN [DeepThinking |-> TRUE, OnlineSearch |-> TRUE]
             ELSE IF flags.deep THEN [DeepThinking |-> TRUE, OnlineSearch |-> FALSE]
             ELSE [DeepThinking |-> FALSE, OnlineSearch |-> TRUE]
        ELSE [DeepThinking |-> deep1, OnlineSearch |-> search2]

\* A request's body and headers reach parseRequestOptions: the model name,
\* the keys deep_thinking, deepThinking, isDeepThinking, the keys
\* online_search, onlineSearch, and the headers X-Deep-Thinking,
\* X-Online-Search, X-Disable-Search.
OptCall ==
    /\ opt.pc = "idle"
    /\ \E m \in ModelNames, dk \in [1..3 -> KeyValues], sk \in [1..2 -> KeyValues],
          xd \in BOOLEAN, xs \in BOOLEAN, xn \in BOOLEAN :
        opt' = [opt EXCEPT !.pc = "called", !.model = m, !.deepKeys = dk,
                           !.searchKeys = sk, !.xDeep = xd, !.xSearch = xs,
                           !.xDisable = xn]
    /\ UNCHANGED <<chatVars, storeVars, shut, srv, res>>

\* parseRequestOptions returns.
OptReturn ==
    /\ opt.pc = "called"
    /\ LET r == parseRequestOptions(opt) IN
        opt' = [opt EXCEPT !.pc = "ret", !.DeepThinking = r.DeepThinking,
                           !.OnlineSearch = r.OnlineSearch]
    /\ UNCHANGED <<chatVars, storeVars, shut, srv, res>>

OptNext == OptCall \/ OptReturn

SpecOptions == Init /\ [][OptNext]_vars

-----------------------------------------------------------------------------
(* GetConversation and performChat for arbitrary user keys and session ids, *)
(* one request at a time: which entry of s.convs a pair resolves to.        *)

\* GetConversation(userKey, sid): the entry under the key is returned, and
\* constructed first when there is none.
ResolveKey ==
    /\ res.pc = "idle"
    /\ res.n < MaxResolves
    /\ \E u \in KeyUsers, s \in KeySessions :
        LET key == ConvKey(u, s) IN
        res' = [res EXCEPT
                  !.pc = "chat", !.userKey = u, !.sid = DefaultIfEmpty(s), !.key = key,
                  !.n = @ + 1,
                  !.table[key] = IF @ # NoEntry THEN @
                                 ELSE [UserKey |-> u, ConversationID |-> DefaultIfEmpty(s),
                                       History |-> << >>]]
    /\ UNCHANGED <<chatVars, storeVars, shut, srv, opt>>

\* performChat on the entry returned: the request's turn is appended. The
\* query is named after the pair that sent it.
Exchange ==
    /\ res.pc = "chat"
    /\ res' = [res EXCEPT !.pc = "idle",
                          !.table[res.key].History =
                              Append(@, Message("user", <<res.userKey, res.sid>>))]
    /\ UNCHANGED <<chatVars, storeVars, shut, srv, opt>>

KeysNext == ResolveKey \/ Exchange

SpecKeys == Init /\ [][KeysNext]_vars

-----------------------------------------------------------------------------
(* Properties of the store.                                                 *)

Live == {i \in DOMAIN objs : objs[i] # NoConv}

IsPrefix(s, r) == Len(s) <= Len(r) /\ SubSeq(r, 1, Len(s)) = s

\* The messages of turns occur in hist, consecutively and in order.
ContainsTurns(hist, turns) ==
    \E i \in 0..(Len(hist) - Len(turns)) : SubSeq(hist, i + 1, i + Len(turns)) = turns

\* C1: when the eviction loop deletes a conversation from the table, the
\* conversation's in-use counter is 0.
C1_NeverEvictInUse ==
    [][\A k \in Keys :
          (convs[k] # 0 /\ convs'[k] = 0) => objs[convs[k]].InUse = 0]_vars

\* C2: every Conversation ever constructed for a (user key, session id)
\* pair, and the pair's row, carry one and the same internal id.
C2_OneInternalID ==
    \A p \in Pairs :
        /\ Cardinality(aux.ids[p]) <= 1
        /\ dbConvs[p] # NoRow => aux.ids[p] = {dbConvs[p].internalID}

\* The write requests of pair p that are submitted and not yet finished, in
\* the order the worker will take them.
Pending(p) ==
    SelectSeq((IF wr = NoReq THEN << >> ELSE <<wr>>) \o writeCh,
              LAMBDA r : r.kind = "conv" /\ r.pair = p)

\* C3 as stated: after a submitted persist commits the row holds exactly
\* its snapshot, and once the queue has drained the row holds the most
\* recently submitted snapshot.
C3_DrainedRowIsLastSubmitted ==
    \A p \in Pairs :
        /\ aux.lastCommit[p] # NoReq =>
              /\ dbConvs[p] # NoRow
              /\ dbConvs[p].history_json = aux.lastCommit[p].history_json
        /\ (aux.lastSub[p] # NoReq /\ Pending(p) = << >>) =>
              /\ dbConvs[p] # NoRow
              /\ dbConvs[p].history_json = aux.lastSub[p].history_json

\* C3 as amended: after a submitted persist commits the row holds exactly
\* its snapshot; persists are taken and committed in submission order, so
\* the row always holds the most recently submitted snapshot among those
\* whose transaction committed, and every pending snapshot is newer than it.
C3_CommittedInSubmissionOrder ==
    \A p \in Pairs :
        /\ aux.lastCommit[p] # NoReq =>
              /\ dbConvs[p] # NoRow
              /\ dbConvs[p].history_json = aux.lastCommit[p].history_json
              /\ dbConvs[p].internalID = aux.lastCommit[p].internalID
              /\ dbConvs[p].seq = aux.lastCommit[p].seq
        /\ aux.lastCommit[p] = NoReq => dbConvs[p] = NoRow
        /\ \A i \in 1..Len(Pending(p)) :
              /\ dbConvs[p] # NoRow => dbConvs[p].seq < Pending(p)[i].seq
              /\ \A j \in 1..(i - 1) : Pending(p)[j].seq < Pending(p)[i].seq
        /\ (aux.lastSub[p] # NoReq /\ Pending(p) # << >>) =>
              Pending(p)[Len(Pending(p))] = aux.lastSub[p]

\* Two snapshots of one pair were submitted before the worker took either,
\* both have committed, and the row holds the second, which has turns.
C3_Witness ==
    \E p \in Pairs :
        /\ Pending(p) = << >>
        /\ aux.lastCommit[p] # NoReq
        /\ aux.lastCommit[p] = aux.lastSub[p]
        /\ aux.lastCommit[p].seq >= 2
        /\ dbConvs[p].history_json.json = "array"

\* C4: a request whose upstream call ends with an error leaves the
\* conversation's history and dirty flag as they were; a history changes
\* only by a call that ended without error, and then by exactly the
\* (user, assistant) pair of that call, which sets the flag.
C4_ErrorLeavesHistory ==
    [][\A hd \in Handlers :
          (h[hd].pc = "upstream" /\ h'[hd].pc = "dec") =>
              LET before == objs[h[hd].conv]
                  after == objs'[h[hd].conv]
              IN  /\ h'[hd].err =>
                        /\ after.History = before.History
                        /\ after.Dirty = before.Dirty
                  /\ after.History # before.History =>
                        /\ ~h'[hd].err
                        /\ after.History =
                             before.History \o <<Message("user", h[hd].query),
                                                 Message("assistant", h'[hd].full)>>
                        /\ after.Dirty]_vars

\* A call ended with an error after a fragment was accumulated and
\* delivered, and the conversation is clean and without turns.
C4_Witness ==
    \E hd \in Handlers :
        /\ h[hd].pc = "dec" /\ h[hd].err /\ h[hd].delivered
        /\ h[hd].full # EmptyText
        /\ objs[h[hd].conv].History = << >>
        /\ ~objs[h[hd].conv].Dirty

\* The step in which a tick of the eviction loop ends.
TickEnds == cl'.pc = "idle" /\ (cl.pc # "idle" \/ lastTick' # lastTick)

\* The eviction loop deletes key k in this step and the conversation it
\* deletes is the one that was due when the tick began: the request sent
\* in this step carries the turns the conversation had then.
FlushedBeforeRemoval(k) ==
    (convs[k] # 0 /\ convs'[k] = 0 /\ k \in DOMAIN cl.due /\ cl.due[k].obj = convs[k]) =>
        /\ writeCh' # << >>
        /\ LET sent == writeCh'[Len(writeCh')] IN
              /\ sent.kind = "conv"
              /\ sent.pair = <<objs[convs[k]].UserKey, objs[convs[k]].ConversationID>>
              /\ IsPrefix(cl.due[k].hist, UnmarshalHistory(sent.history_json))

\* The eviction loop, in the step it is about to take, finds key k in use
\* or no longer idle (scan pass) or in use or gone (second pass).
SparedNow(k) ==
    \/ cl.pc = "scan" /\ k \in cl.toScan /\ objs[convs[k]].InUse > 0
    \/ cl.pc = "scanRead" /\ k = cl.cur /\ ~NeedsPersist(objs[convs[k]], cl.now)
          /\ ~Idle(objs[convs[k]], cl.now)
    \/ cl.pc = "scanSend" /\ k = cl.cur /\ ~Idle(objs[convs[k]], cl.now)
    \/ cl.pc = "evict" /\ cl.evictKeys # << >> /\ k = Head(cl.evictKeys) /\ Skip(k)

\* C5 as stated: a conversation that is idle for 60s and not in use when a
\* tick begins is out of the table when the tick ends, and a write request
\* carrying its history was submitted no later than its removal.
C5_DueIsEvicted ==
    [][/\ TickEnds => \A k \in DOMAIN cl.due : convs'[k] # cl.due[k].obj
       /\ \A k \in Keys : FlushedBeforeRemoval(k)]_vars

\* C5 as amended: the same, for a conversation that is moreover still idle
\* and not in use when the scan pass reaches it and still not in use when
\* the second pass re-checks it; a conversation a request starts using
\* during the tick stays in the table.
C5_DueAndUndisturbedIsEvicted ==
    [][/\ TickEnds => \A k \in DOMAIN cl.due :
                          (k \notin cl.spared /\ ~SparedNow(k)) => convs'[k] # cl.due[k].obj
       /\ \A k \in Keys : FlushedBeforeRemoval(k)]_vars

\* The second pass is about to send the final flush of a conversation that
\* was due and dirty when the tick began, and to delete it.
C5_Witness ==
    /\ cl.pc = "evictSend"
    /\ cl.cur \in DOMAIN cl.due
    /\ cl.due[cl.cur].obj = convs[cl.cur]
    /\ cl.due[cl.cur].dirty
    /\ UnmarshalHistory(cl.snap.history_json) = cl.due[cl.cur].hist
    /\ cl.snap.history_json.json = "array"

\* C8: a GetConversation call that follows the return of another call for
\* the same key, with no change of the table in between, returns the same
\* Conversation object.
C8_ResolveTwiceSameObject ==
    [][\A hd \in Handlers :
          (h[hd].pc = "idle" /\ h'[hd].pc # "idle"
           /\ aux.lastRet[ConvKey(h'[hd].userKey, h'[hd].sid)] # 0) =>
              /\ h'[hd].pc = "inc"
              /\ h'[hd].conv = aux.lastRet[ConvKey(h'[hd].userKey, h'[hd].sid)]]_vars

\* Two calls for one key have returned, the second right after the first,
\* and both hold the same object.
C8_Witness ==
    /\ aux.nreqs = 2
    /\ \A hd \in Handlers : h[hd].pc = "inc"
    /\ h["h1"].conv = h["h2"].conv
    /\ Key("h1") = Key("h2")

\* C9: a request that arrives after a request on the same key completed
\* successfully sends the upstream the conversationId the earlier one sent
\* and a history that contains the earlier one's turn pair.
C9_NextRequestContinues ==
    \A hd \in Handlers :
        (h[hd].pc = "upstream" /\ h[hd].prior # NoRow) =>
            LET sent == Payload(objs[h[hd].conv]) IN
            /\ sent.ConversationID = h[hd].prior.internalID
            /\ ContainsTurns(sent.RawLastQueryList.gzip, h[hd].prior.turns)

-----------------------------------------------------------------------------
(* Properties of the write worker.                                          *)

\* The worker receives the oldest queued request in this step.
Taken == writeCh # << >> /\ writeCh' = Tail(writeCh)

\* The transaction the worker has open ends in this step.
Ended == wr # NoReq /\ wr' = NoReq

\* In this step outcome is sent on the completion channel of req, when it
\* has one, and on no other channel.
Delivered(req, outcome) ==
    \A hd \in Handlers : done'[hd] = IF req.done = hd THEN outcome ELSE done[hd]

\* In this step the tables take the mutation of req, and nothing else.
Applied(req) ==
    IF req.kind = "user"
    THEN /\ dbConvs' = dbConvs
         /\ \A u \in UserKeys :
               IF u = req.userKey /\ dbUsers[u] = NoUser
               THEN [oaid |-> req.oaid, miID |-> req.miID] = dbUsers'[u]
               ELSE dbUsers'[u] = dbUsers[u]
    ELSE /\ dbUsers' = dbUsers
         /\ \A p \in Pairs :
               IF p = req.pair
               THEN /\ dbConvs'[p] # NoRow
                    /\ dbConvs'[p].internalID = req.internalID
                    /\ dbConvs'[p].history_json = req.history_json
               ELSE dbConvs'[p] = dbConvs[p]

TablesUnchanged == dbUsers' = dbUsers /\ dbConvs' = dbConvs

\* C11 as stated, the part the code does not do: every request the worker
\* receives gets a transaction in which its mutation function runs.
C11_EveryRequestRuns ==
    [][Taken => wr' = Head(writeCh)]_vars

\* C11 as amended: the worker has at most one transaction open (it receives
\* a request only when none is open, and the open one ends before the next
\* begins); a request whose Begin fails gets no transaction, its function
\* does not run and the error is delivered; a request whose transaction
\* began has its function run once, and the transaction ends either
\* committed, with exactly its mutation applied and nil delivered, or not
\* committed, with the tables as they were and the error delivered; the
\* tables change in no other step.
C11_WorkerSerializes ==
    [][/\ Taken =>
             /\ wr = NoReq
             /\ \/ wr' = Head(writeCh) /\ done' = done
                \/ wr' = NoReq /\ Delivered(Head(writeCh), "err")
             /\ TablesUnchanged
       /\ (wr # NoReq /\ wr' # wr) => wr' = NoReq
       /\ Ended =>
             \/ Applied(wr) /\ Delivered(wr, "ok")
             \/ TablesUnchanged /\ Delivered(wr, "err")
       /\ ~TablesUnchanged => Ended
       /\ done' # done => (Taken \/ Ended \/ \E hd \in Handlers : done'[hd] = "none")]_vars

\* A blocking insert has committed and its submitter has nil on its
\* channel, while another request waits in the queue.
C11_Witness ==
    \E hd \in Handlers :
        /\ done[hd] = "ok"
        /\ dbUsers[h[hd].userKey] # NoUser
        /\ writeCh # << >>
        /\ wr = NoReq

-----------------------------------------------------------------------------
(* Properties of shutdown.                                                  *)

\* C12: closing the store while requests are pending, or while the eviction
\* loop or a handler may still submit one, never panics: no goroutine
\* sends on the closed write queue, and the worker returns only with the
\* queue drained.
C12_CloseNeverPanics ==
    /\ shut.panic = "none"
    /\ shut.worker = "exited" => (writeCh = << >> /\ wr = NoReq)

-----------------------------------------------------------------------------
(* Properties of the responses.                                             *)

\* The handler of route is serving a streaming request and has reached
\* performChat.
Streaming(route) ==
    /\ srv.route = route /\ srv.streaming /\ srv.pre = "ok"
    /\ srv.pc \in {"chat", "done"} /\ srv.invoked = 1

\* The upstream fragments read so far, and those of the whole stream.
FragmentsSoFar == Fragments(SubSeq(stream.lines, 1, chat.pos))
FragmentsInAll == Fragments(ReadBeforeEnd(stream))

\* The events of a chat-completions stream for fragments frs: the role-only
\* chunk, when there is a first fragment, then a content chunk for each.
ChatBody(frs) ==
    (IF frs = << >> THEN << >>
     ELSE <<Event("chat.completion.chunk", "assistant", EmptyText, "null")>>)
    \o [i \in 1..Len(frs) |-> Event("chat.completion.chunk", "", frs[i], "null")]

\* An event named ev for each fragment of frs, carrying it.
Deltas(ev, frs) == [i \in 1..Len(frs) |-> Event(ev, "", frs[i], "")]

\* C13: a chat-completions stream is, at every moment, the role-only chunk
\* (written at the first fragment, before any content chunk) and one content
\* chunk per fragment read so far, in order; once the call has completed it
\* is followed by one empty-content chunk with finish reason "stop" and
\* then by data: [DONE], the last event. A call that ends with an error
\* adds nothing.
C13_ChatCompletionsEvents ==
    Streaming("/v1/chat/completions") =>
        /\ srv.pc = "chat" => srv.out = ChatBody(FragmentsSoFar)
        /\ (srv.pc = "done" /\ ~chat.err) =>
              srv.out = ChatBody(FragmentsInAll)
                        \o <<Event("chat.completion.chunk", "", EmptyText, "stop"),
                             Event("data: [DONE]", "", EmptyText, "")>>
        /\ (srv.pc = "done" /\ chat.err) => srv.out = ChatBody(FragmentsSoFar)

\* A chat-completions stream of two different fragments has completed:
\* role chunk, two content chunks, finish chunk, [DONE].
C13_Witness ==
    /\ Streaming("/v1/chat/completions")
    /\ srv.pc = "done" /\ ~chat.err
    /\ Len(srv.out) = 5
    /\ srv.out[2].text # srv.out[3].text

\* C14: a responses stream starts with response.created, written before
\* the upstream call; then one output_text.delta per fragment read so far,
\* in order; once the call has completed, one output_text.done whose text
\* is the concatenation of the delta texts, then one response.completed
\* with the same text, and nothing after it.
C14_ResponsesEvents ==
    Streaming("/v1/responses") =>
        LET created == <<Event("response.created", "", EmptyText, "")>> IN
        /\ srv.calls = 0 => srv.out = created
        /\ srv.pc = "chat" =>
              srv.out = created \o Deltas("response.output_text.delta", FragmentsSoFar)
        /\ (srv.pc = "done" /\ ~chat.err) =>
              srv.out = created
                        \o Deltas("response.output_text.delta", FragmentsInAll)
                        \o <<Event("response.output_text.done", "", Concat(FragmentsInAll), ""),
                             Event("response.completed", "", Concat(FragmentsInAll), "")>>
        /\ (srv.pc = "done" /\ chat.err) =>
              srv.out = created \o Deltas("response.output_text.delta", FragmentsSoFar)

\* A responses stream of two different fragments has completed.
C14_Witness ==
    /\ Streaming("/v1/responses")
    /\ srv.pc = "done" /\ ~chat.err
    /\ Len(srv.out) = 5
    /\ srv.out[2].text # srv.out[3].text
    /\ srv.out[4].text = srv.out[2].text \o srv.out[3].text

\* C15: a Claude-messages stream starts with message_start and
\* content_block_start, both written before the upstream call; then one
\* content_block_delta per fragment read so far, in order; once the call
\* has completed, content_block_stop, message_delta with a stop reason and
\* message_stop, the last event.
C15_ClaudeEvents ==
    Streaming("/v1/messages") =>
        LET start == <<Event("message_start", "", EmptyText, ""),
                       Event("content_block_start", "", EmptyText, "")>>
        IN
        /\ srv.calls = 0 => srv.out = start
        /\ srv.pc = "chat" => srv.out = start \o Deltas("content_block_delta", FragmentsSoFar)
        /\ (srv.pc = "done" /\ ~chat.err) =>
              srv.out = start
                        \o Deltas("content_block_delta", FragmentsInAll)
                        \o <<Event("content_block_stop", "", EmptyText, ""),
                             Event("message_delta", "", EmptyText, "end_turn"),
                             Event("message_stop", "", EmptyText, "")>>
        /\ (srv.pc = "done" /\ chat.err) =>
              srv.out = start \o Deltas("content_block_delta", FragmentsSoFar)

\* A Claude-messages stream of two different fragments has completed.
C15_Witness ==
    /\ Streaming("/v1/messages")
    /\ srv.pc = "done" /\ ~chat.err
    /\ Len(srv.out) = 7
    /\ srv.out[3].text # srv.out[4].text

\* C16: the upstream is called at most once per request, and a request
\* whose upstream call failed (transport error or non-2xx status) ends with
\* the upstream error of its protocol, streaming or not.
C16_UpstreamErrorSurfaced ==
    /\ srv.calls <= 1
    /\ (srv.pc = "done" /\ srv.calls = 1 /\ stream.status # "ok") =>
          /\ srv.out # << >>
          /\ srv.out[Len(srv.out)] =
                Event(IF srv.route = "/v1/messages" THEN "claude.error" ELSE "openai.error",
                      "", "upstream_error", "")

\* C18: a request whose method differs from the route's gets status 405
\* and nothing else, and its handler is never invoked; a request with the
\* route's method invokes the handler exactly once.
C18_MethodOnly ==
    /\ srv.invoked <= 1
    /\ srv.pc \in {"handler", "chat", "done"} =>
          IF srv.method = RouteMethod(srv.route)
          THEN srv.invoked = 1
          ELSE /\ srv.invoked = 0 /\ srv.calls = 0
               /\ srv.pc = "done" /\ srv.status = 405 /\ srv.out = << >>

\* A GET of /v1/chat/completions was answered 405.
C18_Witness ==
    /\ srv.pc = "done" /\ srv.status = 405
    /\ srv.route = "/v1/chat/completions" /\ srv.method = "GET"

-----------------------------------------------------------------------------
(* Properties of parseRequestOptions.                                       *)

\* The model name ends in the tokens suf, whatever the case of its letters.
EndsIn(name, suf) ==
    Len(name) >= Len(suf) /\ SubSeq(ToLower(name), Len(name) - Len(suf) + 1, Len(name)) = suf

\* C17: whatever the body flags and headers, a model name that ends in
\* -thinking-search gives both options, one that ends in -thinking gives
\* deep thinking without search, and one that ends in -search (and not in
\* -thinking-search) gives search without deep thinking; and with no model
\* suffix, no header and no body flag both are enabled.
C17_ModelSuffixRule ==
    opt.pc = "ret" =>
        /\ EndsIn(opt.model, <<"-thinking", "-search">>) =>
              (opt.DeepThinking /\ opt.OnlineSearch)
        /\ EndsIn(opt.model, <<"-thinking">>) => (opt.DeepThinking /\ ~opt.OnlineSearch)
        /\ (EndsIn(opt.model, <<"-search">>) /\ ~EndsIn(opt.model, <<"-thinking", "-search">>)) =>
              (~opt.DeepThinking /\ opt.OnlineSearch)
        /\ (/\ ~EndsIn(opt.model, <<"-thinking">>) /\ ~EndsIn(opt.model, <<"-search">>)
            /\ ~opt.xDeep /\ ~opt.xSearch /\ ~opt.xDisable
            /\ \A i \in 1..3 : opt.deepKeys[i] = "absent"
            /\ \A i \in 1..2 : opt.searchKeys[i] = "absent") =>
              (opt.DeepThinking /\ opt.OnlineSearch)

-----------------------------------------------------------------------------
(* Properties of the removal.                                               *)

\* The eviction loop deletes key k from the table in this step.
Removed(k) == convs[k] # 0 /\ convs'[k] = 0

\* C19: when the eviction loop removes a conversation, the time since its
\* last-active stamp is at least the eviction threshold; a conversation
\* whose stamp was refreshed after the scan pass marked it stays.
C19_RemovedOnlyWhenIdle ==
    [][\A k \in Keys :
          Removed(k) => clock - objs[convs[k]].LastActive >= evictAfter]_vars

\* C20: the snapshot the eviction loop submits just before it removes a
\* conversation holds every turn the object's history has at the moment
\* it is deleted from the table.
C20_FinalFlushIsComplete ==
    [][\A k \in Keys :
          Removed(k) =>
              /\ writeCh' # << >>
              /\ UnmarshalHistory(writeCh'[Len(writeCh')].history_json)
                    = objs[convs[k]].History]_vars

-----------------------------------------------------------------------------
(* Properties of the write-behind.                                          *)

\* The most recently submitted snapshot of pair p has left the queue without
\* committing (Begin, the Exec or Commit failed), it carried turns, and the
\* row does not hold them.
FailedPersist(p) ==
    /\ aux.lastSub[p] # NoReq
    /\ Pending(p) = << >>
    /\ aux.lastCommit[p] # aux.lastSub[p]
    /\ aux.lastSub[p].history_json.json = "array"
    /\ \/ dbConvs[p] = NoRow
       \/ ~IsPrefix(UnmarshalHistory(aux.lastSub[p].history_json),
                    UnmarshalHistory(dbConvs[p].history_json))

\* The table holds a conversation of pair p whose history starts with hist,
\* so that a later tick of the eviction loop can submit it again.
Retriable(p, hist) ==
    \E k \in Keys :
        /\ convs[k] # 0
        /\ <<objs[convs[k]].UserKey, objs[convs[k]].ConversationID>> = p
        /\ IsPrefix(hist, objs[convs[k]].History)

\* C21: after a fire-and-forget persist failed, the turns it carried are not
\* lost: the conversation is still in the cache table with those turns, where
\* a later tick of the eviction loop finds it and submits its history again.
C21_FailedPersistIsRetried ==
    \A p \in Pairs :
        FailedPersist(p) => Retriable(p, UnmarshalHistory(aux.lastSub[p].history_json))

-----------------------------------------------------------------------------
(* Properties of the cold load.                                             *)

\* Handler hd constructs a Conversation in this step, and its resolve is
\* the first one of its key since the key's eviction.
LoadsAfterEviction(hd) ==
    /\ h[hd].pc = "load" /\ h'[hd].pc = "insert"
    /\ aux.evicted[Key(hd)] # NoEvicted
    /\ aux.evicted[Key(hd)].by = hd

\* C22: the conversation that the first resolve after an eviction
\* constructs has the history the evicted object had when it was deleted
\* from the table, however soon the resolve follows the eviction.
C22_ReloadIsLossless ==
    [][\A hd \in Handlers :
          LoadsAfterEviction(hd) =>
              objs'[h'[hd].conv].History = aux.evicted[Key(hd)].History]_vars

-----------------------------------------------------------------------------
(* Properties of the locks.                                                 *)

\* The eviction loop is at a read of Dirty, LastPersist or LastActive of
\* object i that it makes outside persistConversation: the scan pass's
\* tests at `if conv.Dirty && ...` and at `if now.Sub(conv.LastActive) ...`.
LoopReadsContent(i) ==
    /\ cl.pc \in {"scanRead", "scanSend"}
    /\ convs[cl.cur] = i

\* A request is inside performChat's critical section on object i: between
\* conv.mu.Lock() and conv.mu.Unlock(), where it writes LastActive, History
\* and Dirty.
InCritical(hd, i) == h[hd].pc = "upstream" /\ h[hd].conv = i

\* C23: a conversation's history, dirty flag and timestamps are read and
\* written only by the thread that holds the conversation's lock: a request
\* inside its critical section holds it, and the eviction loop, its scan
\* pass included, never reads them while a request holds it.
C23_ContentUnderLock ==
    \A i \in Live :
        /\ \A hd \in Handlers : InCritical(hd, i) => objs[i].mu = hd
        /\ LoopReadsContent(i) => objs[i].mu \notin Handlers

-----------------------------------------------------------------------------
(* Properties of the in-use counter.                                        *)

\* The performChat calls in progress on object i: those that have
\* incremented the counter and not yet run the deferred decrement.
InProgress(i) ==
    {hd \in Handlers : h[hd].conv = i /\ h[hd].pc \in {"lock", "upstream", "dec"}}

\* C24: the in-use counter of every conversation equals the number of
\* performChat calls in progress on it: a call is counted from before its
\* upstream call starts until it ends, with or without an error, so the
\* counter is never negative and is 0 when no request is active.
C24_InUseCountsCalls ==
    \A i \in Live :
        /\ objs[i].InUse = Cardinality(InProgress(i))
        /\ objs[i].InUse >= 0
        /\ \A hd \in Handlers : InCritical(hd, i) => objs[i].InUse >= 1

\* Two calls are in progress on one conversation: one has ended with an
\* error and has not yet decremented, the other waits for the lock.
C24_Witness ==
    \E i \in Live :
        /\ objs[i].InUse = 2
        /\ \E hd \in Handlers : h[hd].conv = i /\ h[hd].pc = "dec" /\ h[hd].err
        /\ \E hd \in Handlers : h[hd].conv = i /\ h[hd].pc = "lock"

-----------------------------------------------------------------------------
(* Properties of the ignored lines.                                         *)

\* A line the parser ignores: one without the data: prefix, or a data:
\* record whose payload json.Unmarshal rejects.
Ignored(line) == ~line.data \/ line.payload.type = "bad"

RECURSIVE Kept(_)
Kept(ls) ==
    IF ls = << >> THEN << >>
    ELSE IF Ignored(Head(ls)) THEN Kept(Tail(ls)) ELSE <<Head(ls)>> \o Kept(Tail(ls))

\* The stream s with its ignored lines removed, each with its newline: when
\* the last line goes, the lines left all end with a newline.
WithoutIgnored(s) ==
    [s EXCEPT !.lines = Kept(s.lines),
              !.terminated = s.terminated
                             \/ (s.lines # << >> /\ Ignored(s.lines[Len(s.lines)]))]

\* The call reads an ignored line in this step, and the read gave no error.
ReadsIgnored ==
    /\ chat.pc = "read"
    /\ chat'.pos = chat.pos + 1
    /\ Ignored(stream.lines[chat'.pos])
    /\ ReadString(stream, chat.pos).err = "nil"

\* C25: reading a line without the data: prefix or a data: record with a
\* malformed payload changes neither the answer accumulated nor the
\* fragments delivered and neither ends nor fails the call; and what Chat
\* returns (answer, deliveries, error) is what it returns for the stream
\* with those lines removed.
C25_IgnoredLinesChangeNothing ==
    /\ [](chat.pc = "ret" =>
            LET r == RunChat(ChatStart(chat.hasCb), WithoutIgnored(stream)) IN
            /\ chat.full = r.full
            /\ chat.chunks = r.chunks
            /\ chat.err = r.err)
    /\ [][ReadsIgnored => chat' = [chat EXCEPT !.pos = @ + 1]]_vars

\* A call returned the fragment that followed a malformed record and a
\* line without the prefix, and delivered it.
C25_Witness ==
    /\ chat.pc = "ret" /\ chat.hasCb /\ ~chat.err
    /\ Len(stream.lines) = 3
    /\ stream.lines[1].data /\ stream.lines[1].payload.type = "bad"
    /\ ~stream.lines[2].data
    /\ IsFragment(stream.lines[3])
    /\ chat.chunks = <<stream.lines[3].payload.answer>>
    /\ chat.full = stream.lines[3].payload.answer

-----------------------------------------------------------------------------
(* Properties of the object a request works on.                             *)

\* Handler hd appends its turn pair to its conversation in this step.
Appends(hd) ==
    /\ h[hd].pc = "upstream" /\ h'[hd].pc = "dec"
    /\ objs'[h[hd].conv].History # objs[h[hd].conv].History

\* C26: a request appends its turns only to the Conversation that is the
\* table's entry for its key: from the return of GetConversation to the
\* append the object is neither evicted nor replaced in the table.
C26_AppendsToTableEntry ==
    [][\A hd \in Handlers : Appends(hd) => convs[Key(hd)] = h[hd].conv]_vars

-----------------------------------------------------------------------------
(* Properties of the table key.                                             *)

\* C27: distinct (user key, session id) pairs resolve to distinct entries,
\* also when a key or an id holds the separator: the entry a resolve
\* returns is the one of its own pair, and every turn of an entry's history
\* was sent by the entry's pair.
C27_DistinctPairsDistinctEntries ==
    /\ res.pc = "chat" =>
          /\ res.table[res.key].UserKey = res.userKey
          /\ res.table[res.key].ConversationID = res.sid
    /\ \A k \in DOMAIN res.table :
          res.table[k] # NoEntry =>
              \A i \in 1..Len(res.table[k].History) :
                  res.table[k].History[i].Content
                      = <<res.table[k].UserKey, res.table[k].ConversationID>>

-----------------------------------------------------------------------------
(* Properties of the table lock.                                            *)

\* The eviction loop has called persistConversation and is at
\* conv.mu.Lock(), holding the table lock of the pass it is in, while a
\* request holds the conversation's lock for its upstream call.
LoopWaitsForRequest ==
    /\ cl.pc \in {"scanPersist", "evictPersist"}
    /\ objs[convs[cl.cur]].mu \in Handlers

\* C28: the eviction loop never holds the table lock, read or write, while
\* it waits for a conversation lock that a request holds during its
\* upstream call, so no resolve waits at the table lock for the duration
\* of an upstream call.
C28_TableLockNotHeldAcrossCall ==
    ~LoopWaitsForRequest

-----------------------------------------------------------------------------
(* Properties of the dirty flag.                                            *)

\* persistConversation has taken a snapshot of object i under conv.mu and
\* has not yet sent it on the write queue.
SnapshotInHand(i) ==
    /\ cl.pc \in {"scanSend", "evictSend"}
    /\ convs[cl.cur] = i

\* The history of the most recent snapshot persistConversation has taken
\* of object i, or the one i was constructed with when none was taken.
LastSnapshot(i) ==
    IF SnapshotInHand(i) THEN UnmarshalHistory(cl.snap.history_json) ELSE aux.base[i]

Clean(i) == objs[i].mu = "free" /\ ~objs[i].Dirty

\* A successful exchange sets the flag, and only a snapshot of the object,
\* taken under its lock with all its turns, clears it.
FlagFollowsTurns ==
    /\ \A hd \in Handlers : Appends(hd) => objs'[h[hd].conv].Dirty
    /\ \A i \in DOMAIN objs :
          (objs[i] # NoConv /\ objs'[i] # NoConv /\ objs[i].Dirty /\ ~objs'[i].Dirty) =>
              /\ cl.pc \in {"scanPersist", "evictPersist"}
              /\ convs[cl.cur] = i
              /\ UnmarshalHistory(cl'.snap.history_json) = objs[i].History

-----------------------------------------------------------------------------
(* Properties of concurrent requests on one session.                        *)

\* The upstream call of handler hd has returned without error with an
\* answer, and hd has not yet left performChat.
Succeeded(hd) == h[hd].pc = "dec" /\ ~h[hd].err /\ NotBlank(h[hd].full)

\* C30: at most one upstream call is in flight per Conversation object, and
\* so per session: of two concurrent requests on one session one makes its
\* call after the other has appended, and the history the later one sends
\* holds the turn pair of the earlier one when that one succeeded.
C30_OneCallPerSession ==
    /\ \A i \in Live : Cardinality({hd \in Handlers : InCritical(hd, i)}) <= 1
    /\ \A hd1, hd2 \in Handlers :
          (hd1 # hd2 /\ Key(hd1) = Key(hd2)) =>
              /\ ~(h[hd1].pc = "upstream" /\ h[hd2].pc = "upstream")
              /\ (Succeeded(hd1) /\ h[hd2].pc = "upstream") =>
                    ContainsTurns(Payload(objs[h[hd2].conv]).RawLastQueryList.gzip,
                                  <<Message("user", h[hd1].query),
                                    Message("assistant", h[hd1].full)>>)

-----------------------------------------------------------------------------
(* Properties of progress.                                                  *)

\* Handler hd has a request in hand: it is inside GetConversation (and
\* there, possibly, inside getOrCreateUser's wait for its insert) or inside
\* performChat.
Resolving(hd) == h[hd].pc \in {"user", "userWait", "load", "insert"}
Exchanging(hd) == h[hd].pc \in {"inc", "lock", "upstream", "dec"}
Busy(hd) == Resolving(hd) \/ Exchanging(hd)

====
